---- MODULE Spec2Model ----
(***************************************************************************)
(* Model of smdiv/dsp_basics/illustration_low_pass.ipynb: a notebook that  *)
(* draws random bits, NRZ-modulates them, and on every slider event        *)
(* convolves the NRZ signal with the sampled impulse response of an RC     *)
(* element and normalises the result.                                      *)
(*                                                                         *)
(* Numbers.  Floating point values are modelled in fixed point: the        *)
(* integer v stands for v / Scale.  Products and quotients are truncated   *)
(* toward zero, which stands for the rounding of the float operation.      *)
(* The time constant is held in thousandths (the slider's resolution).     *)
(***************************************************************************)
EXTENDS Integers, Sequences, FiniteSets, TLC

VARIABLES
    pc,                  \* position of the kernel: the source line about to run
    err,                 \* the exception that ended the run, "none" while none
    defined,             \* names bound so far (globals and plot_convol's locals)
    bit_length,          \* global, line 117
    samples_per_bit,     \* global, line 118
    time,                \* global, line 120
    binary_data,         \* global, line 123
    nrz_signal,          \* global, line 126
    time_constant,       \* plot_convol's argument, in thousandths
    t,                   \* plot_convol's local, line 151
    impulse_response_rc, \* plot_convol's local, line 151
    convolved            \* plot_convol's local, lines 154 and 155

vars == <<pc, err, defined, bit_length, samples_per_bit, time, binary_data,
          nrz_signal, time_constant, t, impulse_response_rc, convolved>>

globals == <<bit_length, samples_per_bit, time, binary_data, nrz_signal>>

(***************************************************************************)
(* Bounds of the model.                                                    *)
(***************************************************************************)
MaxBitLength == 3
MaxSamplesPerBit == 2
MaxNegative == 1
Scale == 1000
ExpTerms == 8

(***************************************************************************)
(* Program constants.                                                      *)
(***************************************************************************)
RandLow == 2
TauDen == 1000
SliderMin == 1
SliderMax == 2000
SliderStep == 10
SliderValue == 100

BitLengths == (0 - MaxNegative)..MaxBitLength
SamplesPerBit == (0 - MaxNegative)..MaxSamplesPerBit

\* The values the FloatSlider of line 237 can deliver, in thousandths.
SliderValues ==
    {SliderMin + k * SliderStep : k \in 0..((SliderMax - SliderMin) \div SliderStep)}

\* Arguments a direct call plot_convol(tau) can carry that the slider cannot.
DirectValues == {0, 0 - SliderMax}

(***************************************************************************)
(* Fixed point arithmetic.                                                 *)
(***************************************************************************)
Abs(a) == IF a < 0 THEN 0 - a ELSE a

TruncDiv(a, b) ==
    IF (a < 0) = (b < 0) THEN Abs(a) \div Abs(b) ELSE 0 - (Abs(a) \div Abs(b))

FMul(a, b) == TruncDiv(a * b, Scale)

RECURSIVE TaylorTerm(_, _)
TaylorTerm(X, k) ==
    IF k = 0 THEN Scale ELSE TruncDiv(TaylorTerm(X, k - 1) * X, k * Scale)

RECURSIVE TaylorSum(_, _)
TaylorSum(X, k) ==
    IF k = 0 THEN TaylorTerm(X, 0) ELSE TaylorSum(X, k - 1) + TaylorTerm(X, k)

\* e^X: the series on [-1, 1], squaring outside it.
RECURSIVE Exp(_)
Exp(X) ==
    IF Abs(X) > Scale
    THEN LET half == Exp(TruncDiv(X, 2)) IN FMul(half, half)
    ELSE TaylorSum(X, ExpTerms)

(***************************************************************************)
(* Float values that can be not-a-number: the elements of `convolved`.     *)
(***************************************************************************)
Float(v) == [kind |-> "num", v |-> v]
NaN == [kind |-> "nan", v |-> 0]
Inf(neg) == [kind |-> IF neg THEN "-inf" ELSE "inf", v |-> 0]

RECURSIVE SeqMax(_)
SeqMax(s) ==
    IF Len(s) = 1 THEN s[1]
    ELSE LET m == SeqMax(Tail(s)) IN IF s[1] > m THEN s[1] ELSE m

(***************************************************************************)
(* Library calls of cell 4.                                                *)
(***************************************************************************)
\* np.arange(0, stop, step = 1/spb): max(0, ceil(stop / step)) points
\* 0, step, 2 step, ...; the quotient stop / step is taken as exact.
\* `1/spb` raises ZeroDivisionError for spb = 0.
arange(stop, spb) ==
    IF spb = 0 THEN [err |-> "ZeroDivisionError", val |-> <<>>]
    ELSE LET step == TruncDiv(Scale, spb)
             n == IF stop * spb > 0 THEN stop * spb ELSE 0
         IN [err |-> "none", val |-> [i \in 1..n |-> (i - 1) * step]]

\* Mutants of randint: `low` taken as an inclusive upper value; a size of
\* zero rejected like a negative one.
randint_inclusive(low, size) ==
    IF size < 0 THEN {[err |-> "ValueError", val |-> <<>>]}
    ELSE {[err |-> "none", val |-> b] : b \in [1..size -> 0..low]}

randint_positive(low, size) ==
    IF size <= 0 THEN {[err |-> "ValueError", val |-> <<>>]}
    ELSE {[err |-> "none", val |-> b] : b \in [1..size -> 0..(low - 1)]}

\* np.random.randint(low = 2, size = n): with no `high`, n draws from [0, low).
\* A negative size raises ValueError.
randint(low, size) ==
    IF size < 0 THEN {[err |-> "ValueError", val |-> <<>>]}
    ELSE {[err |-> "none", val |-> b] : b \in [1..size -> 0..(low - 1)]}

Copies(v, n) == [i \in 1..n |-> v]

\* Mutant of Repeat: np.tile, the whole sequence n times.
RECURSIVE Tile(_, _)
Tile(a, n) == IF n = 0 THEN <<>> ELSE a \o Tile(a, n - 1)

\* np.repeat(a, n) for n >= 0: each element in turn, n times.
RECURSIVE Repeat(_, _)
Repeat(a, n) ==
    IF a = <<>> THEN <<>> ELSE Copies(Head(a), n) \o Repeat(Tail(a), n)

\* Mutant of nrz: a count of zero rejected like a negative one.
nrz_positive(data, spb) ==
    IF spb <= 0 THEN [err |-> "ValueError", val |-> <<>>]
    ELSE [err |-> "none", val |-> Repeat(data, spb)]

\* nrz(binary_data, samples_per_bit): np.repeat raises ValueError for a
\* negative count.
nrz(data, spb) ==
    IF spb < 0 THEN [err |-> "ValueError", val |-> <<>>]
    ELSE [err |-> "none", val |-> Repeat(data, spb)]

(***************************************************************************)
(* rc_impulse_response.                                                    *)
(***************************************************************************)
\* Mutant of TransferFunction: numerator and denominator coefficient swapped
\* in the output gain, C = tc.
TransferFunction_gain(tc) ==
    IF tc = 0 THEN [A |-> 0, B |-> 0, C |-> 0, D |-> Scale]
    ELSE LET g == TruncDiv(Scale * TauDen, tc)
         IN [A |-> 0 - g, B |-> Scale, C |-> TruncDiv(tc * Scale, TauDen), D |-> 0]

\* signal.TransferFunction([1], [tc, 1]) as the state space the solver uses.
\* The coefficients are normalised by the leading denominator coefficient:
\* A = -1/tc, B = 1, C = 1/tc, D = 0.  For tc = 0 the leading zero is
\* trimmed and the system is the constant gain 1: A = B = C = 0, D = 1.
TransferFunction(tc) ==
    IF tc = 0 THEN [A |-> 0, B |-> 0, C |-> 0, D |-> Scale]
    ELSE LET g == TruncDiv(Scale * TauDen, tc)
         IN [A |-> 0 - g, B |-> Scale, C |-> g, D |-> 0]

\* The state at each grid point with zero input: x[0] = B, then
\* x[i] = x[i-1] * e^(A dt).
RECURSIVE xout(_, _, _)
xout(x0, e, n) ==
    IF n = 1 THEN <<x0>>
    ELSE LET prev == xout(x0, e, n - 1)
         IN Append(prev, FMul(prev[n - 1], e))

\* signal.impulse(system, T = grid): the solver reads T[0] (IndexError on an
\* empty grid), steps the state over the grid and returns (T, C x).
impulse(sys, grid) ==
    IF grid = <<>> THEN [err |-> "IndexError", t |-> <<>>, h |-> <<>>]
    ELSE LET n == Len(grid)
             e == IF n = 1 THEN Scale ELSE Exp(FMul(sys.A, grid[2] - grid[1]))
             x == xout(sys.B, e, n)
         IN [err |-> "none", t |-> grid, h |-> [i \in 1..n |-> FMul(x[i], sys.C)]]

\* Mutant of rc_impulse_response: a time constant <= 0 rejected.
rc_impulse_response_checked(tc, grid) ==
    IF tc <= 0 THEN [err |-> "ValueError", t |-> <<>>, h |-> <<>>]
    ELSE impulse(TransferFunction(tc), grid)

rc_impulse_response(tc, grid) == impulse(TransferFunction(tc), grid)

\* The solver squeezes its output: a one point grid gives a 0-d amplitude.
NDim(h) == IF Len(h) = 1 THEN 0 ELSE 1

(***************************************************************************)
(* signal.convolve (mode 'full') and the normalisation of line 155.        *)
(***************************************************************************)
\* Input sample i adds x[i] times the response, shifted to start at sample i.
RECURSIVE Accumulate(_, _, _, _)
Accumulate(y, x, h, i) ==
    IF i = 0 THEN y
    ELSE LET z == Accumulate(y, x, h, i - 1)
         IN [n \in 1..Len(z) |->
                IF n - i + 1 \in 1..Len(h) THEN z[n] + x[i] * h[n - i + 1] ELSE z[n]]

\* Mutant of convolve: mode 'same', the centre Len(x) samples of the full one.
convolve_same(x, h) ==
    LET full == Accumulate([n \in 1..(Len(x) + Len(h) - 1) |-> 0], x, h, Len(x))
        off == (Len(h) - 1) \div 2
    IN [n \in 1..Len(x) |-> full[n + off]]

convolve(x, h) ==
    Accumulate([n \in 1..(Len(x) + Len(h) - 1) |-> 0], x, h, Len(x))

\* a / b on floats: 0/0 is nan and v/0 is +-inf (a warning, no exception).
TrueDivide(a, b) ==
    IF a.kind = "nan" \/ b.kind = "nan" THEN NaN
    ELSE IF b.v = 0 THEN (IF a.v = 0 THEN NaN ELSE Inf(a.v < 0))
    ELSE Float(TruncDiv(a.v * Scale, b.v))

\* Mutant of MaxAbs: np.max(y), the np.abs forgotten.
MaxAbs_signed(y) == Float(SeqMax([i \in 1..Len(y) |-> y[i].v]))

\* np.max(np.abs(y)) of a non-empty array of numbers.
MaxAbs(y) == Float(SeqMax([i \in 1..Len(y) |-> Abs(y[i].v)]))

normalize(y) ==
    LET m == MaxAbs(y) IN [i \in 1..Len(y) |-> TrueDivide(y[i], m)]

(***************************************************************************)
(* Cell 4: lines 117 to 126.                                               *)
(***************************************************************************)
Raise(e) == pc' = "error" /\ err' = e

L120 ==
    /\ pc = "l120"
    /\ LET r == arange(bit_length, samples_per_bit)
       IN IF r.err # "none"
          THEN Raise(r.err) /\ UNCHANGED <<defined, time>>
          ELSE /\ time' = r.val
               /\ defined' = defined \cup {"time"}
               /\ pc' = "l123"
               /\ err' = err
    /\ UNCHANGED <<bit_length, samples_per_bit, binary_data, nrz_signal,
                   time_constant, t, impulse_response_rc, convolved>>

L123 ==
    /\ pc = "l123"
    /\ \E r \in randint(RandLow, bit_length) :
          IF r.err # "none"
          THEN Raise(r.err) /\ UNCHANGED <<defined, binary_data>>
          ELSE /\ binary_data' = r.val
               /\ defined' = defined \cup {"binary_data"}
               /\ pc' = "l126"
               /\ err' = err
    /\ UNCHANGED <<bit_length, samples_per_bit, time, nrz_signal,
                   time_constant, t, impulse_response_rc, convolved>>

L126 ==
    /\ pc = "l126"
    /\ LET r == nrz(binary_data, samples_per_bit)
       IN IF r.err # "none"
          THEN Raise(r.err) /\ UNCHANGED <<defined, nrz_signal>>
          ELSE /\ nrz_signal' = r.val
               /\ defined' = defined \cup {"nrz_signal"}
               /\ pc' = "l237"
               /\ err' = err
    /\ UNCHANGED <<bit_length, samples_per_bit, time, binary_data,
                   time_constant, t, impulse_response_rc, convolved>>

(***************************************************************************)
(* plot_convol and its callers.                                            *)
(***************************************************************************)
Globals == {"time", "binary_data", "nrz_signal"}

\* Entry of plot_convol(tc): a fresh frame, no local bound yet.
Enter(tc) ==
    /\ time_constant' = tc
    /\ defined' = defined \cap Globals
    /\ t' = <<>>
    /\ impulse_response_rc' = <<>>
    /\ convolved' = <<>>
    /\ pc' = "l151"
    /\ UNCHANGED <<err, bit_length, samples_per_bit, time, binary_data, nrz_signal>>

\* widgets.interact(plot_convol, ...) calls plot_convol once with the
\* slider's initial value.
Interact == pc = "l237" /\ Enter(SliderValue)

\* A slider move calls plot_convol with the new value.
SliderChange == pc = "idle" /\ \E v \in SliderValues : Enter(v)

\* plot_convol called from a cell with an argument outside the slider's range.
DirectCall == pc = "idle" /\ \E v \in DirectValues : Enter(v)

L151 ==
    /\ pc = "l151"
    /\ LET r == rc_impulse_response(time_constant, time)
       IN IF r.err # "none"
          THEN Raise(r.err) /\ UNCHANGED <<defined, t, impulse_response_rc>>
          ELSE /\ t' = r.t
               /\ impulse_response_rc' = r.h
               /\ defined' = defined \cup {"t", "impulse_response_rc"}
               /\ pc' = "l154"
               /\ err' = err
    /\ UNCHANGED <<bit_length, samples_per_bit, time, binary_data, nrz_signal,
                   time_constant, convolved>>

\* Mutant of L154: the result is also bound to the global nrz_signal.
L154_rebinds ==
    /\ pc = "l154"
    /\ IF NDim(impulse_response_rc) # 1
       THEN Raise("ValueError") /\ UNCHANGED <<defined, convolved, nrz_signal>>
       ELSE /\ convolved' = LET y == convolve(nrz_signal, impulse_response_rc)
                            IN [n \in 1..Len(y) |-> Float(y[n])]
            /\ nrz_signal' = convolve(nrz_signal, impulse_response_rc)
            /\ defined' = defined \cup {"convolved"}
            /\ pc' = "l155"
            /\ err' = err
    /\ UNCHANGED <<bit_length, samples_per_bit, time, binary_data,
                   time_constant, t, impulse_response_rc>>

\* signal.convolve refuses inputs of different dimensionality.
L154 ==
    /\ pc = "l154"
    /\ IF NDim(impulse_response_rc) # 1
       THEN Raise("ValueError") /\ UNCHANGED <<defined, convolved>>
       ELSE /\ convolved' = LET y == convolve(nrz_signal, impulse_response_rc)
                            IN [n \in 1..Len(y) |-> Float(y[n])]
            /\ defined' = defined \cup {"convolved"}
            /\ pc' = "l155"
            /\ err' = err
    /\ UNCHANGED <<bit_length, samples_per_bit, time, binary_data, nrz_signal,
                   time_constant, t, impulse_response_rc>>

L155 ==
    /\ pc = "l155"
    /\ convolved' = normalize(convolved)
    /\ pc' = "l159"
    /\ UNCHANGED <<err, defined, bit_length, samples_per_bit, time, binary_data,
                   nrz_signal, time_constant, t, impulse_response_rc>>

\* Lines 159 to 197 draw the two plots; they assign none of the variables.
Plot ==
    /\ pc = "l159"
    /\ pc' = "idle"
    /\ UNCHANGED <<err, defined, bit_length, samples_per_bit, time, binary_data,
                   nrz_signal, time_constant, t, impulse_response_rc, convolved>>

(***************************************************************************)
(* The notebook run: cell 4 with its parameters, then the widget.          *)
(***************************************************************************)
Init ==
    /\ pc = "l120"
    /\ err = "none"
    /\ defined = {}
    /\ bit_length \in BitLengths
    /\ samples_per_bit \in SamplesPerBit
    /\ time = <<>>
    /\ binary_data = <<>>
    /\ nrz_signal = <<>>
    /\ time_constant = 0
    /\ t = <<>>
    /\ impulse_response_rc = <<>>
    /\ convolved = <<>>

Next ==
    \/ L120
    \/ L123
    \/ L126
    \/ Interact
    \/ SliderChange
    \/ DirectCall
    \/ L151
    \/ L154
    \/ L155
    \/ Plot

Spec == Init /\ [][Next]_vars

(***************************************************************************)
(* nrz called on its own: any bit sequence, any oversampling factor.       *)
(***************************************************************************)
BitSequences == UNION {[1..n -> 0..(RandLow - 1)] : n \in 0..MaxBitLength}

InitNrz ==
    /\ pc = "l126"
    /\ err = "none"
    /\ defined = {"binary_data"}
    /\ binary_data \in BitSequences
    /\ bit_length = Len(binary_data)
    /\ samples_per_bit \in SamplesPerBit
    /\ time = <<>>
    /\ nrz_signal = <<>>
    /\ time_constant = 0
    /\ t = <<>>
    /\ impulse_response_rc = <<>>
    /\ convolved = <<>>

SpecNrz == InitNrz /\ [][L126]_vars

(***************************************************************************)
(* Properties.                                                             *)
(***************************************************************************)
\* The exceptions a rejected argument can surface as: whichever of them is
\* raised counts as the specification's InvalidParameter.
InvalidParameter == {"ValueError", "IndexError"}

IsDefined(name) == name \in defined

\* Line 123 has run (it returned or raised).
Ran123 == IsDefined("time") /\ pc \notin {"l120", "l123"}

\* Line 151 of the current plot_convol call has run (it returned or raised).
Ran151 == IsDefined("nrz_signal") /\ pc \in {"l154", "l155", "l159", "idle", "error"}

\* Line 155 of the current plot_convol call has run.
Ran155 == pc \in {"l159", "idle"}

\* C1: for a positive oversampling factor S, nrz(b, S) has length N*S and
\* its sample i (from 0) is b[i // S].
C1_NrzRepeatsEachBit ==
    (IsDefined("nrz_signal") /\ samples_per_bit > 0) =>
        /\ Len(nrz_signal) = Len(binary_data) * samples_per_bit
        /\ \A i \in 0..(Len(binary_data) * samples_per_bit - 1) :
              nrz_signal[i + 1] = binary_data[(i \div samples_per_bit) + 1]

C1_Witness ==
    /\ IsDefined("nrz_signal")
    /\ binary_data = <<1, 0, 1>>
    /\ samples_per_bit = 2
    /\ nrz_signal = <<1, 1, 0, 0, 1, 1>>

\* x[m] with x taken as zero outside its indices (m from 0).
ZeroExtended(x, m) == IF m >= 0 /\ m < Len(x) THEN x[m + 1] ELSE 0

\* sum over k in 0..kmax of h[k] x[n - k].
RECURSIVE ConvolutionSum(_, _, _, _)
ConvolutionSum(x, h, n, kmax) ==
    IF kmax < 0 THEN 0
    ELSE ConvolutionSum(x, h, n, kmax - 1) + h[kmax + 1] * ZeroExtended(x, n - kmax)

\* C2: before the normalisation, `convolved` is the full linear convolution
\* of the NRZ signal and the impulse response: len(x)+len(h)-1 samples,
\* sample n the sum over k of h[k] x[n-k].
C2_FullLinearConvolution ==
    pc = "l155" =>
        /\ Len(convolved) = Len(nrz_signal) + Len(impulse_response_rc) - 1
        /\ \A n \in 0..(Len(convolved) - 1) :
              convolved[n + 1] =
                  Float(ConvolutionSum(nrz_signal, impulse_response_rc, n,
                                       Len(impulse_response_rc) - 1))

C2_Witness ==
    /\ pc = "l155"
    /\ nrz_signal = <<1, 1, 0, 0, 1, 1>>
    /\ Len(impulse_response_rc) = 6
    /\ impulse_response_rc[1] > impulse_response_rc[2]
    /\ impulse_response_rc[2] > impulse_response_rc[3]
    /\ impulse_response_rc[3] > 0
    /\ convolved[3].v = impulse_response_rc[2] + impulse_response_rc[3]

AllZero(x) == \A i \in 1..Len(x) : x[i] = 0

\* C3: for an all-zero NRZ signal the convolved and normalised result is an
\* all-zero sequence of length len(x)+len(h)-1 (no division by zero).
C3_AllZeroSignalGivesZeros ==
    (Ran155 /\ AllZero(nrz_signal)) =>
        /\ Len(convolved) = Len(nrz_signal) + Len(impulse_response_rc) - 1
        /\ \A n \in 1..Len(convolved) : convolved[n] = Float(0)

\* C4: when the convolution is not identically zero, the normalised result
\* has the length of the convolution, every magnitude at most 1 and at least
\* one magnitude exactly 1.
C4_UnitPeak ==
    LET y == convolve(nrz_signal, impulse_response_rc)
    IN (Ran155 /\ \E n \in 1..Len(y) : y[n] # 0) =>
          /\ Len(convolved) = Len(y)
          /\ \A n \in 1..Len(convolved) :
                convolved[n].kind = "num" /\ Abs(convolved[n].v) <= Scale
          /\ \E n \in 1..Len(convolved) : Abs(convolved[n].v) = Scale

C4_Witness ==
    /\ Ran155
    /\ time_constant \in SliderValues
    /\ nrz_signal = <<1, 1, 0, 0, 1, 1>>
    /\ \E n \in 1..Len(convolved) : convolved[n] = Float(Scale)
    /\ \E n \in 1..Len(convolved) :
          convolved[n].v > 0 /\ convolved[n].v < Scale

\* C5 as stated: a bit_length <= 0 makes line 123 fail with InvalidParameter
\* and bind no sequence.
C5_NonPositiveLengthRejected ==
    (Ran123 /\ bit_length <= 0) =>
        pc = "error" /\ err \in InvalidParameter /\ ~IsDefined("binary_data")

\* C5 (amended): a negative bit_length makes line 123 fail with ValueError
\* and bind no sequence; bit_length = 0 raises nothing there and binds the
\* empty sequence.
C5_NegativeLengthRejected ==
    Ran123 =>
        /\ bit_length < 0 =>
              pc = "error" /\ err = "ValueError" /\ ~IsDefined("binary_data")
        /\ bit_length = 0 =>
              /\ IsDefined("binary_data")
              /\ binary_data = <<>>

C5_Witness ==
    /\ Ran123
    /\ bit_length = 0
    /\ pc = "l126"
    /\ err = "none"
    /\ binary_data = <<>>

C7_BadResponseArgumentsRejected ==
    (Ran151 /\ (time_constant <= 0 \/ time = <<>>)) =>
        /\ pc = "error"
        /\ err \in InvalidParameter
        /\ ~IsDefined("t")
        /\ ~IsDefined("impulse_response_rc")
        /\ ~IsDefined("convolved")

\* C7 (amended): rc_impulse_response fails exactly when the time grid is
\* empty, with the solver's IndexError, returning no pair and before any
\* convolution; on a non-empty grid it raises nothing, also for a time
\* constant <= 0, and returns the grid with one amplitude per grid point.
C7_OnlyEmptyGridFails ==
    Ran151 =>
        /\ time = <<>> =>
              /\ pc = "error"
              /\ err = "IndexError"
              /\ ~IsDefined("t")
              /\ ~IsDefined("impulse_response_rc")
              /\ ~IsDefined("convolved")
        /\ time # <<>> =>
              /\ IsDefined("t")
              /\ IsDefined("impulse_response_rc")
              /\ t = time
              /\ Len(impulse_response_rc) = Len(time)
              /\ err # "IndexError"

C7_Witness ==
    /\ Ran151
    /\ pc = "l154"
    /\ time_constant < 0
    /\ Len(time) = 6
    /\ Len(impulse_response_rc) = 6
    /\ err = "none"

\* C8: for a time constant > 0 the amplitudes are non-increasing along the
\* grid, the first one is 1/tau (to the last digit kept), and there is one
\* amplitude per grid point.
C8_ResponseDecaysFromInverseTau ==
    (IsDefined("impulse_response_rc") /\ time_constant > 0) =>
        /\ Len(impulse_response_rc) = Len(time)
        /\ \A i \in 1..(Len(impulse_response_rc) - 1) :
              impulse_response_rc[i + 1] <= impulse_response_rc[i]
        /\ impulse_response_rc[1] * time_constant <= Scale * TauDen
        /\ (impulse_response_rc[1] + 1) * time_constant > Scale * TauDen

C8_Witness ==
    /\ IsDefined("impulse_response_rc")
    /\ time_constant > 0
    /\ Len(impulse_response_rc) = 6
    /\ \A i \in 1..5 : impulse_response_rc[i + 1] < impulse_response_rc[i]

\* C9: the generated bit sequence has bit_length elements, each 0 or 1, and
\* at every position both values can be drawn.
C9_BitsAreBinary ==
    /\ IsDefined("binary_data") =>
          /\ Len(binary_data) = bit_length
          /\ \A i \in 1..Len(binary_data) : binary_data[i] \in {0, 1}
    /\ (pc = "l123" /\ bit_length >= 0) =>
          \A i \in 1..bit_length : \A v \in {0, 1} :
              ENABLED (L123 /\ binary_data'[i] = v)

C9_Witness ==
    /\ IsDefined("binary_data")
    /\ bit_length = 3
    /\ binary_data = <<0, 1, 1>>

\* The result plot_convol(tc) has when computed from the globals alone.
FreshResponse == rc_impulse_response(time_constant, time).h

FreshResult ==
    LET y == convolve(nrz_signal, FreshResponse)
    IN normalize([n \in 1..Len(y) |-> Float(y[n])])

InPlotConvol == pc \in {"l151", "l154", "l155", "l159", "idle"}

\* C10: no step of plot_convol, and no slider event, changes the bit
\* sequence, the time grid or the NRZ signal, and the result of every
\* invocation is the one computed from them and the current time constant.
C10_InputsFrozenResultFresh ==
    /\ [][InPlotConvol => UNCHANGED globals]_vars
    /\ [](Ran155 => (impulse_response_rc = FreshResponse /\ convolved = FreshResult))

\* A second invocation, with another time constant, has completed.
C10_Witness ==
    /\ pc = "idle"
    /\ time_constant = SliderMin
    /\ nrz_signal = <<1, 1, 0, 0, 1, 1>>
    /\ convolved = FreshResult

====
